---- MODULE Spec2Model ----
(***************************************************************************)
(* Formula-finder backend: the four tables of src/db/tables.ts and the     *)
(* action handlers over them (groups, formulas, examples, per-user state). *)
(* Ownership of a group gates every mutation of the formulas in it.        *)
(***************************************************************************)
EXTENDS Integers, Sequences, FiniteSets, TLC

VARIABLES groups, formulas, examples, states, now, calls, last, req,
          archiveCount, reactivated

vars == <<groups, formulas, examples, states, now, calls, last, req,
          archiveCount, reactivated>>

store == <<groups, formulas, examples, states>>

hist == <<archiveCount, reactivated>>

----------------------------------------------------------------------------
(* Bounds of the model. *)

\* finished calls per run: formula lifecycle, patch and upsert specifications
MaxCalls == 3

MaxPatchCalls == 2

MaxUpsertCalls == 2

MaxConcCalls == 2

MaxRaceCalls == 4

MaxClock == 1

MaxGroupId == 2

MaxFormulaId == 2

MaxExampleId == 2

MaxStateId == 2

NumProcs == 2

----------------------------------------------------------------------------
(* Values. *)

\* a column holding SQL NULL (an optional column that was never set)
Null == "<null>"

\* a null groupId; autoIncrement ids start at 1
NoId == 0

\* context.locals.user is undefined
NoUser == "<none>"

Users == {"u1", "u2"}

Callers == Users \cup {NoUser}

Difficulties == {"basic", "intermediate", "advanced"}

Familiarities == {"new", "learning", "comfortable", "mastered"}

GroupMutable == {"name", "subject", "tags", "description", "slug", "isActive"}

FormulaMutable == {"groupId", "name", "expression", "description", "variables",
                   "meta", "difficulty", "isActive"}

StateMutable == {"isFavorite", "note", "familiarity"}

\* JavaScript truthiness of an optional text column: null and "" are falsy
Truthy(s) == s /= Null /\ s /= ""

\* input.f, or d when input.f is undefined
Get(input, f, d) == IF f \in DOMAIN input THEN input[f] ELSE d

\* db.update(...).set(patch) on one row: the columns of the patch are written
SetRow(row, patch) ==
    [f \in DOMAIN row |-> IF f \in DOMAIN patch THEN patch[f] ELSE row[f]]

\* a .set({...}) whose description is written unconditionally
PatchDescriptionAlways(input, mutable, t) ==
    [f \in (DOMAIN input \cap mutable) \cup {"updatedAt", "description"} |->
        IF f = "updatedAt" THEN t ELSE Get(input, f, Null)]

\* the conditional spreads of a handler's .set({...}): the fields of `mutable`
\* that the input defines, plus updatedAt
Patch(input, mutable, t) ==
    [f \in (DOMAIN input \cap mutable) \cup {"updatedAt"} |->
        IF f = "updatedAt" THEN t ELSE input[f]]

\* the refine() of updateGroupSchema and updateFormulaSchema
AtLeastOneField(input, mutable) == DOMAIN input \cap mutable /= {}

----------------------------------------------------------------------------
(* The response of the latest finished call. *)

Response(op, u, input, outcome, ret) ==
    [op |-> op, user |-> u, input |-> input, outcome |-> outcome, ret |-> ret]

\* an absent (undefined) input, and an input object with no field set
NoInput == [f \in {} |-> TRUE]

NoCall == Response("none", NoUser, NoInput, "OK", {})

Idle == [pc |-> "idle"]

\* a seeded shared group: no action writes a null ownerId, the column allows it
SharedGroup ==
    [id |-> 1, ownerId |-> Null, name |-> "n1", subject |-> Null, tags |-> Null,
     description |-> Null, slug |-> Null, isActive |-> TRUE,
     createdAt |-> 0, updatedAt |-> 0]

Init ==
    /\ groups \in {<<>>, <<SharedGroup>>}
    /\ formulas = <<>>
    /\ examples = <<>>
    /\ states = <<>>
    /\ now = 0
    /\ calls = 0
    /\ last = NoCall
    /\ req = [p \in 1..NumProcs |-> Idle]
    /\ archiveCount = [f \in 1..MaxFormulaId |-> 0]
    /\ reactivated = {}

----------------------------------------------------------------------------
(* Ownership resolver. *)

requireUser(u) == IF u = NoUser THEN "UNAUTHORIZED" ELSE "OK"

\* getOwnedGroup with the ownerId comparison left out
getOwnedGroupAnyUser(groupId, userId) ==
    IF groupId \notin DOMAIN groups THEN "NOT_FOUND" ELSE "OK"

getOwnedGroup(groupId, userId) ==
    IF groupId \notin DOMAIN groups THEN "NOT_FOUND"
    ELSE IF Truthy(groups[groupId].ownerId) /\ groups[groupId].ownerId /= userId
         THEN "FORBIDDEN"
    ELSE "OK"

ensureFormulaIsEditable(formulaId, userId) ==
    IF formulaId \notin DOMAIN formulas THEN "NOT_FOUND"
    ELSE IF formulas[formulaId].groupId /= NoId
         THEN getOwnedGroup(formulas[formulaId].groupId, userId)
    ELSE "OK"

\* thrown errors propagate: the first failing step decides the outcome
FirstError(outcomes) ==
    LET bad == {i \in DOMAIN outcomes : outcomes[i] /= "OK"}
    IN IF bad = {} THEN "OK"
       ELSE outcomes[CHOOSE i \in bad : \A j \in bad : i <= j]

Tick ==
    /\ now < MaxClock
    /\ now' = now + 1
    /\ UNCHANGED <<store, calls, last, req, hist>>

----------------------------------------------------------------------------
(* Group actions. *)

NewGroup(id, u, input, t) ==
    [id |-> id, ownerId |-> u, name |-> input.name,
     subject |-> Get(input, "subject", Null), tags |-> Get(input, "tags", Null),
     description |-> Get(input, "description", Null),
     slug |-> Get(input, "slug", Null),
     isActive |-> Get(input, "isActive", TRUE),
     createdAt |-> t, updatedAt |-> t]

createFormulaGroup(u, input) ==
    LET outcome == requireUser(u)
        id == Len(groups) + 1
    IN /\ Len(groups) < MaxGroupId
       /\ IF outcome = "OK"
          THEN /\ groups' = Append(groups, NewGroup(id, u, input, now))
               /\ last' = Response("createFormulaGroup", u, input, "OK", {id})
          ELSE /\ groups' = groups
               /\ last' = Response("createFormulaGroup", u, input, outcome, {})
       /\ calls' = calls + 1
       /\ UNCHANGED <<formulas, examples, states, now, req, hist>>

updateFormulaGroupOutcome(u, input) ==
    FirstError(<<requireUser(u), getOwnedGroup(input.id, u)>>)

updateFormulaGroupSet(input, t) == Patch(input, GroupMutable, t)

updateFormulaGroup(u, input) ==
    LET outcome == updateFormulaGroupOutcome(u, input)
    IN /\ AtLeastOneField(input, GroupMutable)
       /\ IF outcome = "OK"
          THEN /\ groups' = [groups EXCEPT ![input.id] =
                                SetRow(@, updateFormulaGroupSet(input, now))]
               /\ last' = Response("updateFormulaGroup", u, input, "OK", {input.id})
          ELSE /\ groups' = groups
               /\ last' = Response("updateFormulaGroup", u, input, outcome, {})
       /\ calls' = calls + 1
       /\ UNCHANGED <<formulas, examples, states, now, req, hist>>

listMyFormulaGroupsQuery(u, input) ==
    {g \in DOMAIN groups :
        /\ groups[g].ownerId = u
        /\ (Get(input, "includeInactive", FALSE) \/ groups[g].isActive = TRUE)}

listMyFormulaGroups(u, input) ==
    LET outcome == requireUser(u)
    IN /\ last' = Response("listMyFormulaGroups", u, input, outcome,
                           IF outcome = "OK" THEN listMyFormulaGroupsQuery(u, input)
                           ELSE {})
       /\ calls' = calls + 1
       /\ UNCHANGED <<store, now, req, hist>>

----------------------------------------------------------------------------
(* Formula actions. *)

NewFormula(id, input, t) ==
    [id |-> id, groupId |-> Get(input, "groupId", NoId), name |-> input.name,
     expression |-> input.expression,
     description |-> Get(input, "description", Null),
     variables |-> Get(input, "variables", Null),
     meta |-> Get(input, "meta", Null),
     difficulty |-> Get(input, "difficulty", "basic"),
     isActive |-> Get(input, "isActive", TRUE),
     createdAt |-> t, updatedAt |-> t]

\* createFormula without its getOwnedGroup call
createFormulaOutcomeNoGroupCheck(u, input) == requireUser(u)

createFormulaOutcome(u, input) ==
    FirstError(<<requireUser(u),
                 IF "groupId" \in DOMAIN input
                 THEN getOwnedGroup(input.groupId, u) ELSE "OK">>)

createFormula(u, input) ==
    LET outcome == createFormulaOutcome(u, input)
        id == Len(formulas) + 1
    IN /\ Len(formulas) < MaxFormulaId
       /\ IF outcome = "OK"
          THEN /\ formulas' = Append(formulas, NewFormula(id, input, now))
               /\ last' = Response("createFormula", u, input, "OK", {id})
          ELSE /\ formulas' = formulas
               /\ last' = Response("createFormula", u, input, outcome, {})
       /\ calls' = calls + 1
       /\ UNCHANGED <<groups, examples, states, now, req, hist>>

\* a second check that looks at the formula's current group alone
updateFormulaSecondCheckCurrentOnly(u, input, groupId) ==
    IF groupId /= NoId THEN getOwnedGroup(groupId, u) ELSE "OK"

\* the second ownership check of updateFormula, given the row ensureFormulaIsEditable read
updateFormulaSecondCheck(u, input, groupId) ==
    IF "groupId" \in DOMAIN input THEN getOwnedGroup(input.groupId, u)
    ELSE IF groupId /= NoId THEN getOwnedGroup(groupId, u)
    ELSE "OK"

updateFormulaOutcome(u, input) ==
    FirstError(<<requireUser(u),
                 ensureFormulaIsEditable(input.id, u),
                 IF input.id \in DOMAIN formulas
                 THEN updateFormulaSecondCheck(u, input, formulas[input.id].groupId)
                 ELSE "OK">>)

updateFormulaSet(input, t) == Patch(input, FormulaMutable, t)

\* bookkeeping: the formulas archiveFormula has succeeded on (once, or more often),
\* and which of them an updateFormula has switched back on since their last archive
archived == {f \in DOMAIN archiveCount : archiveCount[f] > 0}

Archive(id) == [archiveCount EXCEPT ![id] = IF @ < 2 THEN @ + 1 ELSE @]

Reactivate(input) ==
    IF Get(input, "isActive", FALSE) = TRUE /\ input.id \in archived
    THEN reactivated \cup {input.id} ELSE reactivated

updateFormula(u, input) ==
    LET outcome == updateFormulaOutcome(u, input)
    IN /\ AtLeastOneField(input, FormulaMutable)
       /\ IF outcome = "OK"
          THEN /\ formulas' = [formulas EXCEPT ![input.id] =
                                  SetRow(@, updateFormulaSet(input, now))]
               /\ last' = Response("updateFormula", u, input, "OK", {input.id})
               /\ reactivated' = Reactivate(input)
          ELSE /\ formulas' = formulas
               /\ last' = Response("updateFormula", u, input, outcome, {})
               /\ reactivated' = reactivated
       /\ calls' = calls + 1
       /\ UNCHANGED <<groups, examples, states, now, req, archiveCount>>

archiveFormulaOutcome(u, input) ==
    FirstError(<<requireUser(u), ensureFormulaIsEditable(input.id, u)>>)

\* an archive that refreshes updatedAt and forgets the flag
archiveFormulaSetNoFlag(t) == [updatedAt |-> t]

\* an archive that also resets the description
archiveFormulaSetClobber(t) == [isActive |-> FALSE, description |-> Null, updatedAt |-> t]

archiveFormulaSet(t) == [isActive |-> FALSE, updatedAt |-> t]

archiveFormula(u, input) ==
    LET outcome == archiveFormulaOutcome(u, input)
    IN /\ IF outcome = "OK"
          THEN /\ formulas' = [formulas EXCEPT ![input.id] =
                                  SetRow(@, archiveFormulaSet(now))]
               /\ last' = Response("archiveFormula", u, input, "OK", {})
               /\ archiveCount' = Archive(input.id)
               /\ reactivated' = reactivated \ {input.id}
          ELSE /\ formulas' = formulas
               /\ last' = Response("archiveFormula", u, input, outcome, {})
               /\ UNCHANGED hist
       /\ calls' = calls + 1
       /\ UNCHANGED <<groups, examples, states, now, req>>

\* the rows listFormulas selects; eq() on a null groupId matches no row
listFormulasQuery(input) ==
    {f \in DOMAIN formulas :
        /\ ("groupId" \in DOMAIN input =>
               formulas[f].groupId /= NoId /\ formulas[f].groupId = input.groupId)
        /\ ("difficulty" \in DOMAIN input => formulas[f].difficulty = input.difficulty)
        /\ (~Get(input, "includeInactive", FALSE) => formulas[f].isActive = TRUE)}

listFormulas(u, input) ==
    LET outcome == requireUser(u)
    IN /\ last' = Response("listFormulas", u, input, outcome,
                           IF outcome = "OK" THEN listFormulasQuery(input) ELSE {})
       /\ calls' = calls + 1
       /\ UNCHANGED <<store, now, req, hist>>

----------------------------------------------------------------------------
(* Example actions. *)

NewExample(id, input, t) ==
    [id |-> id, formulaId |-> input.formulaId, title |-> Get(input, "title", Null),
     problem |-> input.problem, solution |-> input.solution,
     data |-> Get(input, "data", Null), createdAt |-> t]

\* createFormulaExample that only looks the formula up
createFormulaExampleOutcomeNoGroupCheck(u, input) ==
    FirstError(<<requireUser(u),
                 IF input.formulaId \in DOMAIN formulas THEN "OK" ELSE "NOT_FOUND">>)

createFormulaExampleOutcome(u, input) ==
    FirstError(<<requireUser(u),
                 ensureFormulaIsEditable(input.formulaId, u),
                 IF input.formulaId \in DOMAIN formulas
                    /\ formulas[input.formulaId].groupId /= NoId
                 THEN getOwnedGroup(formulas[input.formulaId].groupId, u)
                 ELSE "OK">>)

createFormulaExample(u, input) ==
    LET outcome == createFormulaExampleOutcome(u, input)
        id == Len(examples) + 1
    IN /\ Len(examples) < MaxExampleId
       /\ IF outcome = "OK"
          THEN /\ examples' = Append(examples, NewExample(id, input, now))
               /\ last' = Response("createFormulaExample", u, input, "OK", {id})
          ELSE /\ examples' = examples
               /\ last' = Response("createFormulaExample", u, input, outcome, {})
       /\ calls' = calls + 1
       /\ UNCHANGED <<groups, formulas, states, now, req, hist>>

listFormulaExamplesQuery(input) ==
    {e \in DOMAIN examples : examples[e].formulaId = input.formulaId}

listFormulaExamples(u, input) ==
    LET outcome == requireUser(u)
    IN /\ last' = Response("listFormulaExamples", u, input, outcome,
                           IF outcome = "OK" THEN listFormulaExamplesQuery(input)
                           ELSE {})
       /\ calls' = calls + 1
       /\ UNCHANGED <<store, now, req, hist>>

----------------------------------------------------------------------------
(* Inputs of the formula lifecycle specification. *)

GroupIds == 1..MaxGroupId

FormulaIds == 1..MaxFormulaId

GroupFull ==
    [name |-> "n1", subject |-> "s1", tags |-> "t1", description |-> "d1",
     slug |-> "g1", isActive |-> FALSE]

FormulaFull ==
    [name |-> "n1", expression |-> "e1", description |-> "d1", variables |-> "v1",
     meta |-> "m1", difficulty |-> "intermediate", isActive |-> FALSE]

GroupInputs == {[name |-> "n1"]}

FormulaInputs ==
    {[name |-> "n1", expression |-> "e1"]}
    \cup {[groupId |-> g, name |-> "n1", expression |-> "e1"] : g \in GroupIds}

FormulaMoves ==
    {[id |-> f, groupId |-> g] : f \in FormulaIds, g \in GroupIds}

FormulaSwitches ==
    {[id |-> f, isActive |-> b] : f \in FormulaIds, b \in BOOLEAN}
    \cup {[id |-> f, name |-> "n2"] : f \in FormulaIds}

FormulaRefs == {[id |-> f] : f \in FormulaIds}

ListInputs ==
    {NoInput, [includeInactive |-> FALSE], [includeInactive |-> TRUE],
     [groupId |-> 1], [difficulty |-> "basic"]}

ExampleInputs ==
    {[formulaId |-> f, problem |-> "p1", solution |-> "s1"] : f \in FormulaIds}

ExampleRefs == {[formulaId |-> f] : f \in FormulaIds}

\* the callers and inputs a specification tries: a call without a user is refused
\* before its input is read, so one input stands for all of them
Tried(u, input, inputs) == u = NoUser => input = CHOOSE i \in inputs : TRUE

Next ==
    \/ Tick
    \/ \E u \in Callers, input \in GroupInputs :
          calls < MaxCalls /\ Tried(u, input, GroupInputs)
          /\ createFormulaGroup(u, input)
    \/ \E u \in Callers, input \in FormulaInputs \cup {FormulaFull} :
          calls < MaxCalls /\ Tried(u, input, FormulaInputs \cup {FormulaFull})
          /\ createFormula(u, input)
    \/ \E u \in Callers, input \in FormulaMoves \cup FormulaSwitches :
          calls < MaxCalls /\ Tried(u, input, FormulaMoves \cup FormulaSwitches)
          /\ updateFormula(u, input)
    \/ \E u \in Callers, input \in FormulaRefs :
          calls < MaxCalls /\ Tried(u, input, FormulaRefs)
          /\ archiveFormula(u, input)
    \/ \E u \in Callers, input \in ListInputs :
          calls < MaxCalls /\ Tried(u, input, ListInputs)
          /\ listFormulas(u, input)
    \/ \E u \in Callers, input \in ExampleInputs :
          calls < MaxCalls /\ Tried(u, input, ExampleInputs)
          /\ createFormulaExample(u, input)
    \/ \E u \in Callers, input \in ExampleRefs :
          calls < MaxCalls /\ Tried(u, input, ExampleRefs)
          /\ listFormulaExamples(u, input)

Spec == Init /\ [][Next]_vars

----------------------------------------------------------------------------
(* User-state actions. *)

NewState(id, u, input, t) ==
    [id |-> id, userId |-> u, formulaId |-> input.formulaId,
     isFavorite |-> Get(input, "isFavorite", FALSE),
     note |-> Get(input, "note", Null),
     familiarity |-> Get(input, "familiarity", "new"),
     createdAt |-> t, updatedAt |-> t]

\* the rows the lookup of upsertUserFormulaState selects
upsertLookup(u, input) ==
    {s \in DOMAIN states :
        states[s].formulaId = input.formulaId /\ states[s].userId = u}

\* an update branch that borrows the insert branch's `?? false`
upsertSetDefaulting(input, t) ==
    [f \in (DOMAIN input \cap StateMutable) \cup {"updatedAt", "isFavorite"} |->
        IF f = "updatedAt" THEN t ELSE Get(input, f, FALSE)]

upsertSet(input, t) == Patch(input, StateMutable, t)

\* the update branch: the row `existing` is patched
upsertUpdate(u, input, existing, t) ==
    /\ states' = (IF existing \in DOMAIN states
                  THEN [states EXCEPT ![existing] = SetRow(@, upsertSet(input, t))]
                  ELSE states)
    /\ last' = Response("upsertUserFormulaState", u, input, "OK", {existing})

\* an insert that the store turns into an update when the pair already has a row
\* (a unique key on userId and formulaId with on-conflict-update)
upsertInsertOnConflict(u, input, t, enforced) ==
    LET id == Len(states) + 1
        found == upsertLookup(u, input)
    IN IF enforced /\ input.formulaId \notin DOMAIN formulas
       THEN /\ states' = states
            /\ last' = Response("upsertUserFormulaState", u, input, "STORE_ERROR", {})
       ELSE IF found /= {}
       THEN \E existing \in found : upsertUpdate(u, input, existing, t)
       ELSE /\ states' = Append(states, NewState(id, u, input, t))
            /\ last' = Response("upsertUserFormulaState", u, input, "OK", {id})

\* the insert branch; formulaId references Formulas.id, and whether the store
\* enforces the reference is the store's choice (`enforced`)
upsertInsert(u, input, t, enforced) ==
    LET id == Len(states) + 1
    IN IF enforced /\ input.formulaId \notin DOMAIN formulas
       THEN /\ states' = states
            /\ last' = Response("upsertUserFormulaState", u, input, "STORE_ERROR", {})
       ELSE /\ states' = Append(states, NewState(id, u, input, t))
            /\ last' = Response("upsertUserFormulaState", u, input, "OK", {id})

upsertUserFormulaState(u, input, enforced) ==
    LET outcome == requireUser(u)
        found == upsertLookup(u, input)
    IN /\ IF outcome /= "OK"
          THEN /\ states' = states
               /\ last' = Response("upsertUserFormulaState", u, input, outcome, {})
          ELSE IF found /= {}
          THEN \E existing \in found : upsertUpdate(u, input, existing, now)
          ELSE Len(states) < MaxStateId /\ upsertInsert(u, input, now, enforced)
       /\ calls' = calls + 1
       /\ UNCHANGED <<groups, formulas, examples, now, req, hist>>

listUserFormulaStatesQuery(u, input) ==
    {s \in DOMAIN states :
        /\ states[s].userId = u
        /\ (Get(input, "favoritesOnly", FALSE) => states[s].isFavorite = TRUE)}

listUserFormulaStates(u, input) ==
    LET outcome == requireUser(u)
    IN /\ last' = Response("listUserFormulaStates", u, input, outcome,
                           IF outcome = "OK" THEN listUserFormulaStatesQuery(u, input)
                           ELSE {})
       /\ calls' = calls + 1
       /\ UNCHANGED <<store, now, req, hist>>

StateInputs ==
    {[formulaId |-> f] : f \in FormulaIds}
    \cup {[formulaId |-> f, isFavorite |-> b] : f \in FormulaIds, b \in BOOLEAN}
    \cup {[formulaId |-> f, note |-> "x"] : f \in FormulaIds}
    \cup {[formulaId |-> f, familiarity |-> "learning"] : f \in FormulaIds}
    \cup {[formulaId |-> f, isFavorite |-> TRUE, note |-> "y", familiarity |-> "mastered"] :
             f \in FormulaIds}

StateListInputs == {NoInput, [favoritesOnly |-> TRUE]}

NextUpsert ==
    \/ Tick
    \/ \E u \in Callers, input \in StateInputs, enforced \in BOOLEAN :
          calls < MaxUpsertCalls /\ Tried(u, input, StateInputs)
          /\ upsertUserFormulaState(u, input, enforced)
    \/ \E u \in Callers, input \in StateListInputs :
          calls < MaxUpsertCalls /\ listUserFormulaStates(u, input)
    \/ \E u \in Callers, input \in {[name |-> "n1", expression |-> "e1"]} :
          calls < MaxUpsertCalls /\ createFormula(u, input)

SpecUpsert == Init /\ [][NextUpsert]_vars

----------------------------------------------------------------------------
(* Inputs of the partial-update specification. *)

GroupNew ==
    [name |-> "n2", subject |-> "s2", tags |-> "t2", description |-> "d2",
     slug |-> "g2", isActive |-> TRUE]

FormulaNew(g) ==
    [groupId |-> g, name |-> "n2", expression |-> "e2", description |-> "d2",
     variables |-> "v2", meta |-> "m2", difficulty |-> "advanced", isActive |-> TRUE]

\* input `full` cut down to the fields of `fields`, for the row `id`
Only(id, full, fields) ==
    [f \in fields \cup {"id"} |-> IF f = "id" THEN id ELSE full[f]]

\* patches that set one field, and the patch that sets them all
GroupPatches ==
    {Only(g, GroupNew, {f}) : g \in GroupIds, f \in GroupMutable}
    \cup {Only(g, GroupNew, GroupMutable) : g \in GroupIds}

FormulaPatches ==
    {Only(i, FormulaNew(g), {f}) : i \in FormulaIds, g \in GroupIds, f \in FormulaMutable}
    \cup {Only(i, FormulaNew(g), FormulaMutable) : i \in FormulaIds, g \in GroupIds}

NextPatch ==
    \/ Tick
    \/ \E u \in Callers, input \in GroupInputs \cup {GroupFull} :
          calls < MaxPatchCalls /\ createFormulaGroup(u, input)
    \/ \E u \in Callers, input \in GroupPatches :
          calls < MaxPatchCalls /\ updateFormulaGroup(u, input)
    \/ \E u \in Callers, input \in {NoInput, [includeInactive |-> TRUE]} :
          calls < MaxPatchCalls /\ listMyFormulaGroups(u, input)
    \/ \E u \in Callers, input \in FormulaInputs \cup {FormulaFull} :
          calls < MaxPatchCalls /\ createFormula(u, input)
    \/ \E u \in Callers, input \in FormulaPatches :
          calls < MaxPatchCalls /\ updateFormula(u, input)

SpecPatch == Init /\ [][NextPatch]_vars

----------------------------------------------------------------------------
(* Concurrent requests: every await of a handler is one store step, and the  *)
(* steps of different requests interleave.  No transaction wraps a handler.  *)

Procs == 1..NumProcs

InFlight == {p \in Procs : req[p].pc /= "idle"}

\* requests take the lowest free slot (slots are interchangeable)
CanStart(p) ==
    /\ req[p].pc = "idle"
    /\ \A q \in 1..(p - 1) : req[q].pc /= "idle"

\* calls started so far
Started == calls + Cardinality(InFlight)

Running(pc, op, u, input, t, groupId, existing) ==
    [pc |-> pc, op |-> op, user |-> u, input |-> input, t |-> t,
     groupId |-> groupId, existing |-> existing]

Finish(p, response) ==
    /\ req' = [req EXCEPT ![p] = Idle]
    /\ last' = response
    /\ calls' = calls + 1

Fail(p, outcome) ==
    Finish(p, Response(req[p].op, req[p].user, req[p].input, outcome, {}))

\* the handler up to its first await: requireUser (and `now` of upsert)
start(p, op, pc, u, input) ==
    /\ CanStart(p)
    /\ IF requireUser(u) = "OK"
       THEN /\ req' = [req EXCEPT ![p] = Running(pc, op, u, input, now, NoId, NoId)]
            /\ UNCHANGED <<last, calls>>
       ELSE Finish(p, Response(op, u, input, requireUser(u), {}))
    /\ UNCHANGED <<store, now, hist>>

startUpdateFormula(p, u, input) ==
    /\ AtLeastOneField(input, FormulaMutable)
    /\ start(p, "updateFormula", "select_formula", u, input)

startArchiveFormula(p, u, input) ==
    start(p, "archiveFormula", "select_formula", u, input)

startUpsert(p, u, input) ==
    start(p, "upsertUserFormulaState", "upsert_select", u, input)

\* where a request goes once ensureFormulaIsEditable has returned the row
AfterEnsure(r, groupId) ==
    IF r.op = "updateFormula" /\ ("groupId" \in DOMAIN r.input \/ groupId /= NoId)
    THEN "second_check" ELSE "write"

\* first select of ensureFormulaIsEditable
selectFormula(p) ==
    LET r == req[p]
    IN /\ r.pc = "select_formula"
       /\ IF r.input.id \notin DOMAIN formulas
          THEN Fail(p, "NOT_FOUND")
          ELSE LET g == formulas[r.input.id].groupId
               IN /\ req' = [req EXCEPT ![p].groupId = g,
                                        ![p].pc = IF g /= NoId THEN "ensure_group"
                                                  ELSE AfterEnsure(r, g)]
                  /\ UNCHANGED <<last, calls>>
       /\ UNCHANGED <<store, now, hist>>

\* getOwnedGroup inside ensureFormulaIsEditable, on the groupId that was read
ensureGroup(p) ==
    LET r == req[p]
        outcome == getOwnedGroup(r.groupId, r.user)
    IN /\ r.pc = "ensure_group"
       /\ IF outcome /= "OK"
          THEN Fail(p, outcome)
          ELSE /\ req' = [req EXCEPT ![p].pc = AfterEnsure(r, r.groupId)]
               /\ UNCHANGED <<last, calls>>
       /\ UNCHANGED <<store, now, hist>>

\* the handler's own getOwnedGroup of updateFormula
secondCheck(p) ==
    LET r == req[p]
        outcome == updateFormulaSecondCheck(r.user, r.input, r.groupId)
    IN /\ r.pc = "second_check"
       /\ IF outcome /= "OK"
          THEN Fail(p, outcome)
          ELSE /\ req' = [req EXCEPT ![p].pc = "write"]
               /\ UNCHANGED <<last, calls>>
       /\ UNCHANGED <<store, now, hist>>

\* db.update(Formulas) of updateFormula and of archiveFormula
writeFormula(p) ==
    LET r == req[p]
        id == r.input.id
    IN /\ r.pc = "write"
       /\ IF r.op = "updateFormula"
          THEN /\ formulas' = [formulas EXCEPT ![id] =
                                  SetRow(@, updateFormulaSet(r.input, now))]
               /\ reactivated' = Reactivate(r.input)
               /\ archiveCount' = archiveCount
               /\ Finish(p, Response(r.op, r.user, r.input, "OK", {id}))
          ELSE /\ formulas' = [formulas EXCEPT ![id] =
                                  SetRow(@, archiveFormulaSet(now))]
               /\ archiveCount' = Archive(id)
               /\ reactivated' = reactivated \ {id}
               /\ Finish(p, Response(r.op, r.user, r.input, "OK", {}))
       /\ UNCHANGED <<groups, examples, states, now>>

\* the lookup of upsertUserFormulaState: `existing` is the first row returned
upsertSelect(p) ==
    LET r == req[p]
        found == upsertLookup(r.user, r.input)
    IN /\ r.pc = "upsert_select"
       /\ IF found = {}
          THEN req' = [req EXCEPT ![p].pc = "upsert_insert"]
          ELSE \E existing \in found :
                  req' = [req EXCEPT ![p].pc = "upsert_update",
                                     ![p].existing = existing]
       /\ UNCHANGED <<store, now, last, calls, hist>>

\* the write of upsertUserFormulaState, on what the lookup found
upsertWrite(p, enforced) ==
    LET r == req[p]
    IN /\ \/ /\ r.pc = "upsert_update"
             /\ upsertUpdate(r.user, r.input, r.existing, r.t)
          \/ /\ r.pc = "upsert_insert"
             /\ Len(states) < MaxStateId
             /\ upsertInsert(r.user, r.input, r.t, enforced)
       /\ req' = [req EXCEPT ![p] = Idle]
       /\ calls' = calls + 1
       /\ UNCHANGED <<groups, formulas, examples, now, hist>>

ConcStateInputs ==
    {[formulaId |-> 1], [formulaId |-> 1, isFavorite |-> TRUE],
     [formulaId |-> 1, note |-> "x", familiarity |-> "learning"]}

NextConc ==
    \/ Tick
    \/ \E p \in Procs, u \in Callers, input \in ConcStateInputs :
          Started < MaxConcCalls /\ startUpsert(p, u, input)
    \/ \E p \in Procs : upsertSelect(p)
    \/ \E p \in Procs, enforced \in BOOLEAN : upsertWrite(p, enforced)

SpecConc == Init /\ [][NextConc]_vars

RaceMoves == {[id |-> 1, groupId |-> g] : g \in GroupIds} \cup {[id |-> 1, name |-> "n2"]}

NextRace ==
    \/ Tick
    \/ \E u \in Users, input \in GroupInputs :
          Started < MaxRaceCalls /\ createFormulaGroup(u, input)
    \/ \E u \in Users, input \in {[name |-> "n1", expression |-> "e1"]} :
          Started < MaxRaceCalls /\ createFormula(u, input)
    \/ \E p \in Procs, u \in Callers, input \in RaceMoves :
          Started < MaxRaceCalls /\ startUpdateFormula(p, u, input)
    \/ \E p \in Procs, u \in Callers, input \in {[id |-> 1]} :
          Started < MaxRaceCalls /\ startArchiveFormula(p, u, input)
    \/ \E p \in Procs : selectFormula(p)
    \/ \E p \in Procs : ensureGroup(p)
    \/ \E p \in Procs : secondCheck(p)
    \/ \E p \in Procs : writeFormula(p)

SpecRace == Init /\ [][NextRace]_vars

----------------------------------------------------------------------------
(* Vocabulary of the properties. *)

\* the step that delivers the response of a call of `op`
Called(op) == calls' = calls + 1 /\ last'.op = op

\* user u passes the ownership rule of group g
OwnerOK(g, u) ==
    g \in DOMAIN groups /\ (groups[g].ownerId = Null \/ groups[g].ownerId = u)

\* user u has edit rights on formula f
Editable(f, u) ==
    f \in DOMAIN formulas
    /\ (formulas[f].groupId = NoId \/ OwnerOK(formulas[f].groupId, u))

\* row `new` is row `old` with the input's fields of `mutable` written,
\* updatedAt set to t and nothing else touched
PartialUpdate(old, new, input, mutable, t) ==
    \A f \in DOMAIN old :
        new[f] = IF f \in mutable /\ f \in DOMAIN input THEN input[f]
                 ELSE IF f = "updatedAt" THEN t
                 ELSE old[f]

\* every row but row `id` is what it was
OthersSame(old, new, id) ==
    DOMAIN new = DOMAIN old /\ \A i \in DOMAIN old \ {id} : new[i] = old[i]

----------------------------------------------------------------------------
\* C1: a group with a non-null ownerId is changed by its owner alone: an
\* updateFormulaGroup by another signed-in user ends in FORBIDDEN and leaves the
\* groups as they were (updatedAt included); a call with no user ends in
\* UNAUTHORIZED whatever the group is, and leaves the groups as they were.
C1_OnlyOwnerUpdatesGroup ==
    [][/\ \A g \in DOMAIN groups :
             groups[g].ownerId /= Null /\ groups'[g] /= groups[g]
                => Called("updateFormulaGroup") /\ last'.user = groups[g].ownerId
       /\ Called("updateFormulaGroup") =>
             LET u == last'.user
                 g == last'.input.id
             IN /\ u = NoUser => last'.outcome = "UNAUTHORIZED" /\ groups' = groups
                /\ (u /= NoUser /\ g \in DOMAIN groups
                       /\ groups[g].ownerId /= Null /\ groups[g].ownerId /= u)
                      => last'.outcome = "FORBIDDEN" /\ groups' = groups
                /\ (u /= NoUser /\ g \in DOMAIN groups /\ groups[g].ownerId = u)
                      => last'.outcome = "OK"
      ]_vars

\* another user's update of an owned group has just been refused
C1_Witness ==
    /\ last.op = "updateFormulaGroup"
    /\ last.outcome = "FORBIDDEN"
    /\ last.user \in Users
    /\ groups[last.input.id].ownerId \in Users \ {last.user}

\* C6: a successful updateFormulaGroup or updateFormula writes the fields its
\* input holds and updatedAt, and nothing else: every other field of the row
\* (ownerId, id, createdAt and the mutable fields the input omits) and every
\* other row keeps its value.
C6_PartialUpdateFrame ==
    [][/\ (Called("updateFormulaGroup") /\ last'.outcome = "OK") =>
             /\ PartialUpdate(groups[last'.input.id], groups'[last'.input.id],
                              last'.input, GroupMutable, now)
             /\ OthersSame(groups, groups', last'.input.id)
             /\ formulas' = formulas
       /\ (Called("updateFormula") /\ last'.outcome = "OK") =>
             /\ PartialUpdate(formulas[last'.input.id], formulas'[last'.input.id],
                              last'.input, FormulaMutable, now)
             /\ OthersSame(formulas, formulas', last'.input.id)
             /\ groups' = groups
      ]_vars

\* a group whose optional fields are all set has just had its tags alone updated
C6_Witness ==
    /\ last.op = "updateFormulaGroup"
    /\ last.outcome = "OK"
    /\ DOMAIN last.input = {"id", "tags"}
    /\ LET g == groups[last.input.id]
       IN /\ g.tags = last.input.tags
          /\ g.subject /= Null /\ g.description /= Null /\ g.slug /= Null
          /\ g.updatedAt > g.createdAt

----------------------------------------------------------------------------
\* C2: an updateFormula that supplies a groupId is checked against the formula's
\* current group first and against the destination group second; a destination
\* that is missing or owned by someone else fails the call and leaves every
\* formula as it was; no step ever changes a formula's groupId to a group whose
\* ownership rule the caller does not pass.
C2_MoveChecksDestination ==
    [][/\ \A f \in DOMAIN formulas :
             formulas'[f].groupId /= formulas[f].groupId
                => /\ Called("updateFormula")
                   /\ last'.input.id = f
                   /\ Editable(f, last'.user)
                   /\ OwnerOK(formulas'[f].groupId, last'.user)
       /\ (Called("updateFormula") /\ "groupId" \in DOMAIN last'.input
              /\ last'.user /= NoUser /\ last'.input.id \in DOMAIN formulas) =>
             LET u == last'.user
                 f == last'.input.id
                 dest == last'.input.groupId
             IN /\ ~Editable(f, u) => last'.outcome = "FORBIDDEN"
                /\ (Editable(f, u) /\ dest \notin DOMAIN groups)
                      => last'.outcome = "NOT_FOUND"
                /\ (Editable(f, u) /\ dest \in DOMAIN groups /\ ~OwnerOK(dest, u))
                      => last'.outcome = "FORBIDDEN"
                /\ (Editable(f, u) /\ OwnerOK(dest, u))
                      => last'.outcome = "OK" /\ formulas'[f].groupId = dest
                /\ last'.outcome /= "OK" => formulas' = formulas
      ]_vars

\* a move into another user's group has just been refused at the destination check
C2_Witness ==
    /\ last.op = "updateFormula"
    /\ last.outcome = "FORBIDDEN"
    /\ "groupId" \in DOMAIN last.input
    /\ Editable(last.input.id, last.user)
    /\ last.input.groupId \in DOMAIN groups
    /\ ~OwnerOK(last.input.groupId, last.user)
    /\ formulas[last.input.id].groupId /= last.input.groupId

\* C3: createFormula with a groupId checks the group before the insert: a missing
\* group ends the call in NOT_FOUND, another user's group in FORBIDDEN, and a
\* failed call leaves the formula rows exactly as they were; rows are only ever
\* added, by a successful createFormula whose group the caller may use.
C3_CreateChecksGroupFirst ==
    [][/\ (Called("createFormula") /\ last'.user /= NoUser
              /\ "groupId" \in DOMAIN last'.input) =>
             LET u == last'.user
                 g == last'.input.groupId
             IN /\ g \notin DOMAIN groups => last'.outcome = "NOT_FOUND"
                /\ (g \in DOMAIN groups /\ ~OwnerOK(g, u)) => last'.outcome = "FORBIDDEN"
                /\ OwnerOK(g, u) => last'.outcome = "OK"
       /\ (Called("createFormula") /\ last'.outcome /= "OK") => formulas' = formulas
       /\ DOMAIN formulas \subseteq DOMAIN formulas'
       /\ \A f \in DOMAIN formulas' \ DOMAIN formulas :
             /\ Called("createFormula") /\ last'.outcome = "OK"
             /\ DOMAIN formulas' = DOMAIN formulas \cup {f}
             /\ formulas'[f].groupId = Get(last'.input, "groupId", NoId)
             /\ (formulas'[f].groupId /= NoId => OwnerOK(formulas'[f].groupId, last'.user))
      ]_vars

\* a createFormula into another user's group has just been refused, no row added
C3_Witness ==
    /\ last.op = "createFormula"
    /\ last.outcome = "FORBIDDEN"
    /\ "groupId" \in DOMAIN last.input
    /\ groups[last.input.groupId].ownerId \in Users \ {last.user}
    /\ formulas = <<>>

\* C7 as stated: once archiveFormula has succeeded on a formula, no later state
\* has it in the default listing (includeInactive false, or no input).
C7_ArchivedNeverListed ==
    \A f \in archived :
        \A input \in {NoInput, [includeInactive |-> FALSE]} :
            f \notin listFormulasQuery(input)

\* C7 amended: an archived formula stays out of every listing with
\* includeInactive false until a successful updateFormula sets isActive to true.
C7_ArchivedListedOnlyAfterReactivation ==
    \A f \in archived \ reactivated :
        \A input \in ListInputs :
            ~Get(input, "includeInactive", FALSE) => f \notin listFormulasQuery(input)

\* an archived formula was updated afterwards and is still out of the listing
C7_Witness ==
    /\ last.op = "updateFormula"
    /\ last.outcome = "OK"
    /\ last.input.id \in archived \ reactivated
    /\ formulas[last.input.id].name = "n2"

\* C8: archiveFormula by a caller with edit rights succeeds, sets isActive to
\* false and touches nothing but isActive and updatedAt; on a formula that is
\* already inactive it changes updatedAt alone; no step removes a formula row
\* or changes a row's id.
C8_ArchiveIdempotent ==
    [][/\ \A f \in DOMAIN formulas :
             f \in DOMAIN formulas' /\ formulas'[f].id = formulas[f].id
       /\ (Called("archiveFormula") /\ Editable(last'.input.id, last'.user)
              /\ last'.user /= NoUser) =>
             LET f == last'.input.id
             IN /\ last'.outcome = "OK"
                /\ formulas'[f].isActive = FALSE
                /\ \A c \in DOMAIN formulas[f] \ {"isActive", "updatedAt"} :
                      formulas'[f][c] = formulas[f][c]
                /\ OthersSame(formulas, formulas', f)
                /\ formulas[f].isActive = FALSE =>
                      formulas'[f] = [formulas[f] EXCEPT !.updatedAt = now]
      ]_vars

\* the same formula has been archived twice, the second time at a later instant
C8_Witness ==
    /\ last.op = "archiveFormula"
    /\ last.outcome = "OK"
    /\ archiveCount[last.input.id] = 2
    /\ formulas[last.input.id].isActive = FALSE
    /\ formulas[last.input.id].updatedAt > formulas[last.input.id].createdAt

\* C9: createFormulaExample adds a row only for an existing formula whose group,
\* if it has one, the caller passes the ownership rule of; a missing formula ends
\* the call in NOT_FOUND and another user's group in FORBIDDEN, with no row added.
C9_ExampleNeedsEditRights ==
    [][/\ \A e \in DOMAIN examples' \ DOMAIN examples :
             /\ Called("createFormulaExample") /\ last'.outcome = "OK"
             /\ examples'[e].formulaId = last'.input.formulaId
             /\ Editable(examples'[e].formulaId, last'.user)
       /\ (Called("createFormulaExample") /\ last'.user /= NoUser) =>
             LET u == last'.user
                 f == last'.input.formulaId
             IN /\ f \notin DOMAIN formulas => last'.outcome = "NOT_FOUND"
                /\ (f \in DOMAIN formulas /\ ~Editable(f, u)) => last'.outcome = "FORBIDDEN"
                /\ Editable(f, u) => last'.outcome = "OK" /\ Len(examples') = Len(examples) + 1
                /\ last'.outcome /= "OK" => examples' = examples
      ]_vars

\* an example has just been refused to a user who does not own the formula's group
C9_Witness ==
    /\ last.op = "createFormulaExample"
    /\ last.outcome = "FORBIDDEN"
    /\ last.input.formulaId \in DOMAIN formulas
    /\ ~Editable(last.input.formulaId, last.user)
    /\ examples = <<>>

----------------------------------------------------------------------------
\* the rows of table `st` for the pair (u, f)
PairRows(st, u, f) ==
    {s \in DOMAIN st : st[s].userId = u /\ st[s].formulaId = f}

\* the column defaults of a new state row
StateDefault(c) ==
    IF c = "isFavorite" THEN FALSE ELSE IF c = "familiarity" THEN "new" ELSE Null

\* C4: when upserts run one after another, a pair (userId, formulaId) never has
\* more than one row; a successful upsert leaves exactly one row for its pair,
\* holding the supplied fields, and for every omitted field the value the row
\* had before (the column default when the row is new); after two calls for the
\* same pair the row holds the second call's fields, else the first call's,
\* else the defaults.
C4_SequentialUpsertOneRow ==
    [][/\ \A u \in Users, f \in FormulaIds : Cardinality(PairRows(states', u, f)) <= 1
       /\ (Called("upsertUserFormulaState") /\ last'.outcome = "OK") =>
             LET u == last'.user
                 input == last'.input
                 before == PairRows(states, u, input.formulaId)
                 after == PairRows(states', u, input.formulaId)
             IN /\ Cardinality(after) = 1
                /\ before /= {} => after = before /\ Len(states') = Len(states)
                /\ before = {} => Len(states') = Len(states) + 1
                /\ \A s \in after, c \in StateMutable :
                      states'[s][c] = IF c \in DOMAIN input THEN input[c]
                                      ELSE IF before /= {} THEN states[s][c]
                                      ELSE StateDefault(c)
                /\ (calls = 1 /\ last.op = "upsertUserFormulaState"
                       /\ last.outcome = "OK" /\ last.user = u
                       /\ last.input.formulaId = input.formulaId) =>
                      /\ Len(states') = 1
                      /\ \A c \in StateMutable :
                            states'[1][c] = Get(input, c, Get(last.input, c, StateDefault(c)))
      ]_vars

\* two calls for one pair: the first set isFavorite, the second only the note
C4_Witness ==
    /\ calls = 2
    /\ last.op = "upsertUserFormulaState"
    /\ last.outcome = "OK"
    /\ DOMAIN last.input = {"formulaId", "note"}
    /\ Len(states) = 1
    /\ states[1].isFavorite = TRUE
    /\ states[1].note = last.input.note
    /\ states[1].familiarity = "new"
    /\ states[1].updatedAt > states[1].createdAt

\* C5: lookup and write of an upsert are separate store steps: a request whose
\* lookup found no row inserts a new row when its write runs, whatever rows the
\* pair has by then, so two requests that both looked up before either wrote
\* leave two rows for the same (userId, formulaId).
C5_LookupThenInsertRace ==
    [][\A p \in Procs :
          /\ (req[p].pc = "upsert_select" /\ req'[p] /= req[p]) =>
                (req'[p].pc = "upsert_insert"
                    <=> PairRows(states, req[p].user, req[p].input.formulaId) = {})
          /\ (req[p].pc = "upsert_insert" /\ req'[p].pc = "idle"
                 /\ last'.outcome = "OK") =>
                /\ Len(states') = Len(states) + 1
                /\ states'[Len(states')].userId = req[p].user
                /\ states'[Len(states')].formulaId = req[p].input.formulaId
      ]_vars

\* two rows for the same (userId, formulaId)
C5_Witness ==
    \E s, t \in DOMAIN states :
        /\ s /= t
        /\ states[s].userId = states[t].userId
        /\ states[s].formulaId = states[t].formulaId

\* C10 as stated: in every interleaving, whoever changes a formula row passes,
\* at the moment of the write, the ownership rule of the group the row references.
C10_WriterPassesOwnershipAtWrite ==
    [][\A f \in DOMAIN formulas :
          formulas'[f] /= formulas[f] => Editable(f, last'.user)
      ]_vars

====
